---------------------------- MODULE Spec2Model ----------------------------
(***************************************************************************)
(* Greedy set-cover class scheduling (src/main.py).                        *)
(*                                                                         *)
(* The model follows one call of create_schedule(subjects, teachers).      *)
(* Teacher objects live in a heap indexed by object identity; the mutable  *)
(* containers of the call (the caller's set and list, and the working      *)
(* copies made at lines 120 and 122) are objects named by references, so   *)
(* that in-place updates (-=, list.remove) act on the object a local       *)
(* variable is bound to.                                                   *)
(***************************************************************************)
EXTENDS Naturals, Integers, Sequences, FiniteSets, TLC

(* ------------------------------ bounds --------------------------------- *)
\* number of subject labels the generated inputs draw from
NumSubjects == 3
\* generated ages range over 0..MaxAge
MaxAge == 1
\* generated candidate lists have at most MaxLen entries
MaxLen == 2

(* ------------------------------ data ----------------------------------- *)
\* subject labels: the five of the assignment, then labels outside it
SubjectPool ==
    << "Mathematics", "Physics", "Chemistry", "Computer Science", "Biology",
       "Art", "Music" >>

CanonSubjects ==
    {"Mathematics", "Physics", "Chemistry", "Computer Science", "Biology"}

\* Teacher.__init__ : the fields the scheduler reads or writes
Teacher(age, can_teach) ==
    [age |-> age, can_teach_subjects |-> can_teach, assigned_subjects |-> {}]

\* create_teachers(): the six teachers of the assignment, in list order
CanonTeachers ==
    << Teacher(45, {"Mathematics", "Physics"}),
       Teacher(38, {"Chemistry"}),
       Teacher(50, {"Computer Science", "Mathematics"}),
       Teacher(29, {"Biology", "Chemistry"}),
       Teacher(35, {"Physics", "Computer Science"}),
       Teacher(42, {"Biology", "Computer Science"}) >>

\* best_teacher = None
NoTeacher == 0

\* references of the container objects
SubjectsObj == "subjects"
TeachersObj == "teachers"
FreshSet == "copy"
FreshList == "copy"
Unbound == "unbound"

VARIABLES
    heap,               \* Teacher objects: identity -> fields
    sets,               \* set objects: reference -> elements
    lists,              \* list objects: reference -> sequence of identities
    uncovered,          \* local variable: reference of a set object
    available_teachers, \* local variable: reference of a list object
    selected_teachers,  \* local variable: the list built at line 121
    pc,                 \* "entry" | "loop" | "done"
    ret                 \* "pending" | "schedule" | "None" | "raised"

vars ==
    << heap, sets, lists, uncovered, available_teachers, selected_teachers,
       pc, ret >>

(* ----------------------------- helpers --------------------------------- *)
Range(s) == {s[i] : i \in 1..Len(s)}

RECURSIVE MaxOf(_)
MaxOf(S) ==
    IF S = {} THEN 0
    ELSE LET x == CHOOSE y \in S : TRUE
             m == MaxOf(S \ {x})
         IN IF x > m THEN x ELSE m

\* object identities are handed out in order of first appearance in the list
FirstAppearanceOrder(lst) ==
    \A i \in 1..Len(lst) : lst[i] <= 1 + MaxOf({lst[j] : j \in 1..(i - 1)})

\* the caller's arguments
Subjects == sets[SubjectsObj]
Teachers == lists[TeachersObj]

\* the objects the locals are bound to
Uncovered == sets[uncovered]
Available == lists[available_teachers]

(* --------------------------- create_schedule --------------------------- *)
\* faulty variant: uncovered = subjects
AliasSet(ref) == ref

\* subjects.copy()
CopySet(ref) == FreshSet

\* list(teachers)
CopyList(ref) == FreshList

\* faulty variant: coverage = teacher.can_teach_subjects
CoverageNoIntersect(t, unc) == heap[t].can_teach_subjects

\* faulty variant: everything still uncovered goes to the teacher
CoverageAllUncovered(t, unc) == unc

\* coverage = teacher.can_teach_subjects & uncovered
Coverage(t, unc) == heap[t].can_teach_subjects \cap unc

\* faulty variant: the tie-breaker on age is missing
ScanStepNoTieBreak(best, t, unc) ==
    LET coverage == Coverage(t, unc) IN
    IF Cardinality(coverage) > Cardinality(best.coverage)
    THEN [teacher |-> t, coverage |-> coverage]
    ELSE best

\* faulty variant: the younger teacher wins whatever the coverage
ScanStepYoungestFirst(best, t, unc) ==
    LET coverage == Coverage(t, unc) IN
    IF Cardinality(coverage) > 0
       /\ (best.teacher = NoTeacher \/ heap[t].age < heap[best.teacher].age)
    THEN [teacher |-> t, coverage |-> coverage]
    ELSE best

\* one pass of the body of "for teacher in available_teachers"
ScanStep(best, t, unc) ==
    LET coverage == Coverage(t, unc) IN
    IF Cardinality(coverage) > Cardinality(best.coverage)
    THEN [teacher |-> t, coverage |-> coverage]
    ELSE IF Cardinality(coverage) = Cardinality(best.coverage)
            /\ Cardinality(coverage) > 0
         THEN IF best.teacher = NoTeacher
                 \/ heap[t].age < heap[best.teacher].age
              THEN [teacher |-> t, coverage |-> coverage]
              ELSE best
         ELSE best

\* the for loop from position i on
RECURSIVE ScanFrom(_, _, _, _)
ScanFrom(lst, i, best, unc) ==
    IF i > Len(lst) THEN best
    ELSE ScanFrom(lst, i + 1, ScanStep(best, lst[i], unc), unc)

\* best_teacher, best_coverage after the for loop
Scan(lst, unc) == ScanFrom(lst, 1, [teacher |-> NoTeacher, coverage |-> {}], unc)

\* faulty variant: the loop stops one subject early
WhileTestOffByOne(unc) == Cardinality(unc) > 1

\* while uncovered
WhileTest(unc) == unc # {}

\* faulty variant: a coverage of one subject counts as no coverage
NoProgressOffByOne(best) ==
    best.teacher = NoTeacher \/ Cardinality(best.coverage) <= 1

\* if best_teacher is None or len(best_coverage) == 0
NoProgress(best) == best.teacher = NoTeacher \/ Cardinality(best.coverage) = 0

\* faulty variant: only one of the covered subjects leaves uncovered
ShrinkOne(unc, cov) ==
    IF cov = {} THEN unc ELSE unc \ {CHOOSE s \in cov : TRUE}

\* faulty variant: uncovered is not updated
ShrinkNothing(unc, cov) == unc

\* uncovered -= best_coverage
Shrink(unc, cov) == unc \ cov

\* list.remove(x): drops the first occurrence of x (x occurs in lst)
ListRemove(lst, x) ==
    LET i == CHOOSE k \in 1..Len(lst) :
                 lst[k] = x /\ \A j \in 1..(k - 1) : lst[j] # x
    IN SubSeq(lst, 1, i - 1) \o SubSeq(lst, i + 1, Len(lst))

(* ------------------------------- Init ---------------------------------- *)
InitLocals ==
    /\ uncovered = Unbound
    /\ available_teachers = Unbound
    /\ selected_teachers = << >>
    /\ pc = "entry"
    /\ ret = "pending"

\* generated inputs: a universe, teachers of any capability and age, a list
\* that may name the same Teacher object more than once
InitGenerated ==
    \E k \in 0..NumSubjects, n \in 0..MaxLen :
      \E lst \in [1..n -> 1..n] :
        /\ FirstAppearanceOrder(lst)
        /\ \E h \in [1..MaxOf(Range(lst)) ->
                        {Teacher(a, c) :
                            a \in 0..MaxAge,
                            c \in SUBSET {SubjectPool[i] : i \in 1..NumSubjects}}] :
             /\ heap = h
             /\ sets = [subjects |-> {SubjectPool[i] : i \in 1..k}, copy |-> {}]
             /\ lists = [teachers |-> lst, copy |-> << >>]
    /\ InitLocals

\* the teachers of the assignment with any part of its subjects to cover
InitCanon ==
    /\ heap = CanonTeachers
    /\ \E u \in SUBSET CanonSubjects :
         sets = [subjects |-> u, copy |-> {}]
    /\ lists = [teachers |-> [i \in 1..Len(CanonTeachers) |-> i], copy |-> << >>]
    /\ InitLocals

Init == InitGenerated \/ InitCanon

(* ------------------------------ actions -------------------------------- *)
\* lines 120-122
Enter ==
    /\ pc = "entry"
    /\ uncovered' = CopySet(SubjectsObj)
    /\ sets' = [sets EXCEPT ![CopySet(SubjectsObj)] = sets[SubjectsObj]]
    /\ selected_teachers' = << >>
    /\ available_teachers' = CopyList(TeachersObj)
    /\ lists' = [lists EXCEPT ![CopyList(TeachersObj)] = lists[TeachersObj]]
    /\ pc' = "loop"
    /\ UNCHANGED << heap, ret >>

\* one iteration of the while loop that selects a teacher: lines 124-156
Select ==
    /\ pc = "loop"
    /\ WhileTest(Uncovered)
    /\ LET best == Scan(Available, Uncovered) IN
       /\ ~NoProgress(best)
       /\ heap' = [heap EXCEPT ![best.teacher].assigned_subjects = best.coverage]
       /\ selected_teachers' = Append(selected_teachers, best.teacher)
       /\ sets' = [sets EXCEPT ![uncovered] = Shrink(@, best.coverage)]
       /\ IF best.teacher \in Range(Available)
          THEN /\ lists' = [lists EXCEPT
                              ![available_teachers] = ListRemove(@, best.teacher)]
               /\ UNCHANGED << pc, ret >>
          ELSE \* list.remove raises ValueError
               /\ pc' = "done"
               /\ ret' = "raised"
               /\ UNCHANGED lists
    /\ UNCHANGED << uncovered, available_teachers >>

\* the iteration that finds no teacher: lines 124-144
ReturnNone ==
    /\ pc = "loop"
    /\ WhileTest(Uncovered)
    /\ NoProgress(Scan(Available, Uncovered))
    /\ pc' = "done"
    /\ ret' = "None"
    /\ UNCHANGED << heap, sets, lists, uncovered, available_teachers,
                    selected_teachers >>

\* the while test fails: line 158
ReturnSchedule ==
    /\ pc = "loop"
    /\ ~WhileTest(Uncovered)
    /\ pc' = "done"
    /\ ret' = "schedule"
    /\ UNCHANGED << heap, sets, lists, uncovered, available_teachers,
                    selected_teachers >>

Next == Enter \/ Select \/ ReturnNone \/ ReturnSchedule

Spec == Init /\ [][Next]_vars

\* the call runs to completion: a sequential program takes its next step
FairSpec == Spec /\ WF_vars(Next)

(* ------------------------------ claims --------------------------------- *)
\* create_schedule returned the list selected_teachers
Returned == pc = "done" /\ ret = "schedule"

can_teach_subjects(t) == heap[t].can_teach_subjects
assigned_subjects(t) == heap[t].assigned_subjects
age(t) == heap[t].age

\* the subjects assigned over the returned schedule
AssignedUnion ==
    UNION {assigned_subjects(selected_teachers[i]) : i \in 1..Len(selected_teachers)}

\* the subjects the candidates can teach between them
PoolCapability == UNION {can_teach_subjects(t) : t \in Range(Teachers)}

\* C1: a call ends by returning None or a list, and a returned list assigns
\* exactly the universe: the union of its assigned_subjects equals subjects,
\* never a strict subset or superset of it.
C1_FullCoverageOrNone ==
    pc = "done" =>
        /\ ret \in {"None", "schedule"}
        /\ ret = "schedule" => AssignedUnion = Subjects

\* C1 witness: a schedule of two teachers or more covering a universe
C1_Witness ==
    /\ Returned
    /\ Len(selected_teachers) >= 2
    /\ AssignedUnion = Subjects

\* C2: the call returns None exactly when the candidates' can_teach_subjects
\* together do not contain the universe, and it never raises.
C2_NoneIffUncoverable ==
    pc = "done" =>
        /\ ret # "raised"
        /\ ret = "None" <=> ~(Subjects \subseteq PoolCapability)

\* C2 witness: None returned after a teacher had already been selected
C2_Witness ==
    /\ pc = "done"
    /\ ret = "None"
    /\ Len(selected_teachers) >= 1
    /\ ~(Subjects \subseteq PoolCapability)

\* a set of candidates that covers the universe
IsCover(S) == Subjects \subseteq UNION {can_teach_subjects(t) : t \in S}

\* C3 as claimed: no set of candidates with fewer teachers than the returned
\* schedule covers the universe.
C3_MinimalCover ==
    Returned =>
        ~\E S \in SUBSET Range(Teachers) :
            Cardinality(S) < Len(selected_teachers) /\ IsCover(S)

\* C3 amended: the returned schedule is a greedy cover, not always a
\* smallest one: it has at most |universe| teachers, and exactly one teacher
\* when a single candidate can teach the whole non-empty universe.
C3_GreedyCoverSize ==
    Returned =>
        /\ Len(selected_teachers) <= Cardinality(Subjects)
        /\ IsCover(Range(selected_teachers))
        /\ (Subjects # {} /\ \E t \in Range(Teachers) : IsCover({t}))
               => Len(selected_teachers) = 1

\* C3 witness: a returned schedule of three teachers where two would do
C3_Witness ==
    /\ Returned
    /\ Len(selected_teachers) = 3
    /\ \E S \in SUBSET Range(Teachers) : Cardinality(S) = 2 /\ IsCover(S)

\* the run of the assignment: its six teachers and its five subjects
IsCanonRun ==
    /\ DOMAIN heap = 1..6
    /\ \A t \in 1..6 :
          /\ age(t) = CanonTeachers[t].age
          /\ can_teach_subjects(t) = CanonTeachers[t].can_teach_subjects
    /\ Teachers = << 1, 2, 3, 4, 5, 6 >>
    /\ Subjects = CanonSubjects

\* the schedule of the walkthrough: Shevchenko, Bondarenko, Ivanenko
CanonSchedule ==
    /\ selected_teachers = << 4, 5, 1 >>
    /\ assigned_subjects(4) = {"Biology", "Chemistry"}
    /\ assigned_subjects(5) = {"Physics", "Computer Science"}
    /\ assigned_subjects(1) = {"Mathematics"}

\* a step that selects a teacher
Selecting == pc = "loop" /\ Len(selected_teachers') = Len(selected_teachers) + 1

\* position p of the remaining candidates holds a best choice: no candidate
\* covers more, none of equal coverage is younger, and none of equal coverage
\* and equal age comes before it
IsGreedyChoice(p) ==
    LET cov(q) == Cardinality(can_teach_subjects(Available[q]) \cap Uncovered) IN
    \A q \in 1..Len(Available) :
        /\ cov(q) <= cov(p)
        /\ cov(q) = cov(p) => age(Available[q]) >= age(Available[p])
        /\ (cov(q) = cov(p) /\ age(Available[q]) = age(Available[p])) => q >= p

\* C4: every selection takes a remaining candidate of largest coverage, the
\* youngest of those, the first in list order of those still tied; on the
\* data of the assignment the schedule is Shevchenko {Biology, Chemistry},
\* Bondarenko {Physics, Computer Science}, Ivanenko {Mathematics}.
C4_GreedyChoice ==
    /\ [][Selecting =>
            \E p \in 1..Len(Available) :
                /\ Available[p] = selected_teachers'[Len(selected_teachers')]
                /\ IsGreedyChoice(p)]_vars
    /\ []((IsCanonRun /\ pc = "done") => (ret = "schedule" /\ CanonSchedule))

\* C4 witness: the run of the assignment has returned its schedule
C4_Witness == IsCanonRun /\ Returned /\ CanonSchedule

\* C5: in a returned schedule the assigned_subjects of distinct teachers are
\* disjoint, and each subject of the universe is assigned to the first
\* teacher of the schedule who can teach it.
C5_Disjoint ==
    Returned =>
        /\ \A i, j \in 1..Len(selected_teachers) :
              selected_teachers[i] # selected_teachers[j] =>
                  assigned_subjects(selected_teachers[i])
                      \cap assigned_subjects(selected_teachers[j]) = {}
        /\ \A s \in Subjects :
              \E i \in 1..Len(selected_teachers) :
                  /\ s \in assigned_subjects(selected_teachers[i])
                  /\ \A j \in 1..(i - 1) :
                        s \notin can_teach_subjects(selected_teachers[j])

\* C5 witness: two scheduled teachers can both teach a subject of the universe
C5_Witness ==
    /\ Returned
    /\ \E i, j \in 1..Len(selected_teachers) :
          /\ i < j
          /\ can_teach_subjects(selected_teachers[i])
                 \cap can_teach_subjects(selected_teachers[j]) \cap Subjects # {}

\* C6 as claimed: when the call has returned, a teacher has assigned
\* subjects exactly when the teacher is in the returned schedule, so that a
\* return of None leaves every assigned_subjects empty.
C6_AssignedIffReturned ==
    pc = "done" =>
        \A t \in DOMAIN heap :
            assigned_subjects(t) # {}
                <=> (ret = "schedule" /\ t \in Range(selected_teachers))

\* C7: a teacher of a returned schedule is assigned a non-empty part of what
\* the teacher can teach, so a teacher who can teach nothing of the universe
\* is never in it.
C7_SelectionSound ==
    Returned =>
        \A t \in Range(selected_teachers) :
            /\ assigned_subjects(t) \subseteq can_teach_subjects(t)
            /\ assigned_subjects(t) # {}
            /\ can_teach_subjects(t) \cap Subjects # {}

\* C7 witness: a schedule returned from candidates one of whom can teach
\* nothing of the universe
C7_Witness ==
    /\ Returned
    /\ selected_teachers # << >>
    /\ \E t \in Range(Teachers) : can_teach_subjects(t) \cap Subjects = {}

\* C8: no teacher is twice in a returned schedule, also when the candidate
\* list names the same Teacher object more than once.
C8_NoDuplicate ==
    Returned =>
        \A i, j \in 1..Len(selected_teachers) :
            i # j => selected_teachers[i] # selected_teachers[j]

\* C8 witness: a schedule returned from a list naming its teacher twice
C8_Witness ==
    /\ Returned
    /\ selected_teachers # << >>
    /\ \E i, j \in 1..Len(Teachers) :
          i # j /\ Teachers[i] = Teachers[j] /\ Teachers[i] \in Range(selected_teachers)

\* C9: the call always ends, returning the list or None; each selection
\* takes at least one subject out of uncovered, so there are never more
\* selections than subjects; an empty universe gives the empty schedule.
C9_Terminates ==
    /\ <>(pc = "done" /\ ret \in {"schedule", "None"})
    /\ [][Selecting => Cardinality(Uncovered') < Cardinality(Uncovered)]_vars
    /\ [](Len(selected_teachers) <= Cardinality(Subjects))
    /\ []((pc = "done" /\ Subjects = {})
             => (ret = "schedule" /\ selected_teachers = << >>))

\* C9 witness: the empty schedule returned for an empty universe and a
\* non-empty candidate list
C9_Witness ==
    /\ Returned
    /\ Subjects = {}
    /\ Teachers # << >>
    /\ selected_teachers = << >>

\* C10: no step of the call changes the caller's set of subjects, the
\* caller's list of teachers, or any teacher's can_teach_subjects or age.
C10_InputsUnchanged ==
    [][/\ Subjects' = Subjects
       /\ Teachers' = Teachers
       /\ DOMAIN heap' = DOMAIN heap
       /\ \A t \in DOMAIN heap :
             /\ heap'[t].age = heap[t].age
             /\ heap'[t].can_teach_subjects = heap[t].can_teach_subjects]_vars

\* C10 witness: the call has ended after shrinking both working copies
C10_Witness ==
    /\ pc = "done"
    /\ selected_teachers # << >>
    /\ Uncovered # Subjects
    /\ Available # Teachers

=============================================================================
